---- MODULE Spec2Model ----
(***************************************************************************)
(* Model of src/main.py: the validation engine validate_extraction and the *)
(* batch loop of main.                                                     *)
(*                                                                         *)
(* A JSON value (what json.loads returns) is a record [t, n, d]:           *)
(*   t  the Python type of the value: "null" (None), "bool", "int",        *)
(*      "float", "str", "list", "dict";                                    *)
(*   n  for bool / int / float the number in units of one half (True is 2, *)
(*      the int 1 is 2, the float 1.5 is 3); for str and list the rank of  *)
(*      the value in Python's ordering of that type; 0 otherwise;          *)
(*   d  for a dict the mapping key -> JSON value, else the empty mapping.  *)
(***************************************************************************)
EXTENDS Integers, Sequences, FiniteSets, TLC

VARIABLES
    data,         \* validate_extraction: the argument of the call
    ret,          \* validate_extraction: how the call ended, [exc, errors]
    vpc,          \* validate_extraction: "idle", "returned" or "raised"
    api_key,      \* main: args.api_key is non-empty
    pdfs,         \* main: args.pdfs
    idx,          \* main: position of the for loop in pdfs (1-based)
    mpc,          \* main: position inside main
    result,       \* main: local `result` of the current iteration
    error_check,  \* main: local `error_check` of the current iteration
    results,      \* main: the list `results`
    exc,          \* main: the exception the try block raised, or "none"
    files,        \* the file system: set of [dir, name, content]
    console,      \* the lines printed, [tag, doc]
    extracted,    \* history: per document, what process_pdf did
    writes        \* history: the files opened for writing, [doc, dir, name]

vvars == <<data, ret, vpc>>
mvars == <<api_key, pdfs, idx, mpc, result, error_check, results, exc, files,
           console, extracted, writes>>
vars == <<data, ret, vpc, api_key, pdfs, idx, mpc, result, error_check,
          results, exc, files, console, extracted, writes>>

\* ------------------------------------------------------------------ bounds
MaxNum == 2      \* integers of the model are -1 .. MaxNum
MaxDocs == 2     \* main is run on 1 .. MaxDocs documents

\* ------------------------------------------------------------ JSON values
EmptyDict == [k \in {} |-> 0]

Null == [t |-> "null", n |-> 0, d |-> EmptyDict]
BoolV(b) == [t |-> "bool", n |-> IF b THEN 2 ELSE 0, d |-> EmptyDict]
IntV(k) == [t |-> "int", n |-> 2 * k, d |-> EmptyDict]
FloatHalves(h) == [t |-> "float", n |-> h, d |-> EmptyDict]
StrV(rank) == [t |-> "str", n |-> rank, d |-> EmptyDict]
ListV(rank) == [t |-> "list", n |-> rank, d |-> EmptyDict]
DictV(f) == [t |-> "dict", n |-> 0, d |-> f]

\* Marks a key that the enumeration leaves out of a dict; not a JSON value.
Absent == [t |-> "absent", n |-> 0, d |-> EmptyDict]

\* The dict holding the keys of `choice` that are not Absent.
MkDict(choice) ==
    DictV([k \in {k \in DOMAIN choice : choice[k] # Absent} |-> choice[k]])

\* ------------------------------------------------- Python's operations
\* isinstance(v, int): bool is a subclass of int.
IsInstanceInt(v) == v.t \in {"int", "bool"}

\* isinstance(v, (int, float))
IsInstanceNumber(v) == v.t \in {"int", "bool", "float"}

\* A faulty isinstance(v, dict): None passes as a dict.
IsInstanceDictMutNull(v) == v.t \in {"dict", "null"}

\* isinstance(v, dict)
IsInstanceDict(v) == v.t = "dict"

\* dict.get(key): the value, or None when the key is absent.
Get(v, key) == IF key \in DOMAIN v.d THEN v.d[key] ELSE Null

\* `key in v` is defined for dict, list and str; TypeError otherwise.
SupportsIn(v) == v.t \in {"dict", "list", "str"}

\* `key in v`: a key of the dict.  The lists and strings of the model hold
\* none of the field names.
Contains(v, key) == v.t = "dict" /\ key \in DOMAIN v.d

\* v has the method get.
HasGet(v) == v.t = "dict"

\* a < b, a <= b, a > b are defined between numbers (bool, int, float),
\* between two str and between two list; TypeError otherwise.
Orderable(a, b) ==
    \/ IsInstanceNumber(a) /\ IsInstanceNumber(b)
    \/ a.t = "str" /\ b.t = "str"
    \/ a.t = "list" /\ b.t = "list"

\* ------------------------------------------- validate_extraction, by block
\* How a call ends: it returns the list `errors`, or raises the exception e.
Return(errors) == [exc |-> "none", errors |-> errors]

Raise(e) == [exc |-> e, errors |-> << >>]

REQUIRED_FIELDS ==
    <<"title", "study_design", "population", "sample_size", "outcome",
      "effect_size">>

EFFECT_KEYS == <<"type", "value", "lower_ci", "upper_ci">>

\* The messages one loop appends: prefix + name, for the names selected.
Messages(prefix, names) == [i \in 1 .. Len(names) |-> prefix \o names[i]]

\* for field in REQUIRED_FIELDS: if field not in data: errors.append(...)
RequiredFieldErrors(d) ==
    Messages("Missing field: ",
             SelectSeq(REQUIRED_FIELDS, LAMBDA f : ~Contains(d, f)))

\* if sample_size is not None: not an int -> type; elif <= 0 -> range
SampleSizeErrors(sample_size) ==
    IF sample_size.t = "null" THEN << >>
    ELSE IF ~IsInstanceInt(sample_size)
         THEN <<"sample_size must be an integer or null">>
    ELSE IF sample_size.n <= 0 THEN <<"sample_size must be > 0">>
    ELSE << >>

\* for key in [...]: if key not in effect: errors.append(...)
EffectKeyErrors(effect) ==
    Messages("Missing effect_size field: ",
             SelectSeq(EFFECT_KEYS, LAMBDA k : ~Contains(effect, k)))

\* if v is not None and not isinstance(v, (int, float))
NotNumeric(v) == v.t # "null" /\ ~IsInstanceNumber(v)

\* for name, v in [("value", value), ("lower_ci", lower), ("upper_ci", upper)]
NumericErrors(value, lower, upper) ==
    (IF NotNumeric(value)
        THEN <<"effect_size.value must be numeric or null">> ELSE << >>)
    \o (IF NotNumeric(lower)
        THEN <<"effect_size.lower_ci must be numeric or null">> ELSE << >>)
    \o (IF NotNumeric(upper)
        THEN <<"effect_size.upper_ci must be numeric or null">> ELSE << >>)

\* `lower > upper` is evaluated, and its operands cannot be ordered.
OrderRaises(lower, upper) ==
    lower.t # "null" /\ upper.t # "null" /\ ~Orderable(lower, upper)

\* if lower is not None and upper is not None: if lower > upper
OrderErrors(lower, upper) ==
    IF lower.t # "null" /\ upper.t # "null" /\ lower.n > upper.n
    THEN <<"lower_ci cannot be greater than upper_ci">> ELSE << >>

\* `lower <= value <= upper` is evaluated and raises: a chained comparison
\* evaluates `value <= upper` only when `lower <= value` is true.
RangeRaises(value, lower, upper) ==
    /\ value.t # "null" /\ lower.t # "null" /\ upper.t # "null"
    /\ \/ ~Orderable(lower, value)
       \/ lower.n <= value.n /\ ~Orderable(value, upper)

\* A faulty range check: `if not (lower < value < upper)`.
RangeErrorsMutStrict(value, lower, upper) ==
    IF /\ value.t # "null" /\ lower.t # "null" /\ upper.t # "null"
       /\ ~(lower.n < value.n /\ value.n < upper.n)
    THEN <<"effect_size.value must be between lower_ci and upper_ci">>
    ELSE << >>

\* if value, lower, upper are not None: if not (lower <= value <= upper)
RangeErrors(value, lower, upper) ==
    IF /\ value.t # "null" /\ lower.t # "null" /\ upper.t # "null"
       /\ ~(lower.n <= value.n /\ value.n <= upper.n)
    THEN <<"effect_size.value must be between lower_ci and upper_ci">>
    ELSE << >>

\* A faulty shape check: `if effect is not None and not isinstance(...)`.
ShapeErrorsMutAbsentOk(effect) ==
    IF effect.t # "null" /\ ~IsInstanceDict(effect)
    THEN <<"effect_size must be an object">> ELSE << >>

\* if not isinstance(effect, dict): errors.append("effect_size must be ...")
ShapeErrors(effect) ==
    IF ~IsInstanceDict(effect)
    THEN <<"effect_size must be an object">> ELSE << >>

\* The else branch of `if not isinstance(effect, dict)`, after the errors
\* `sofar` of the earlier blocks.
NestedChecks(sofar, effect) ==
    LET value == Get(effect, "value")
        lower == Get(effect, "lower_ci")
        upper == Get(effect, "upper_ci")
    IN  IF OrderRaises(lower, upper) THEN Raise("TypeError")
        ELSE IF RangeRaises(value, lower, upper) THEN Raise("TypeError")
        ELSE Return(sofar \o EffectKeyErrors(effect)
                          \o NumericErrors(value, lower, upper)
                          \o OrderErrors(lower, upper)
                          \o RangeErrors(value, lower, upper))

validate_extraction(d) ==
    IF ~SupportsIn(d) THEN Raise("TypeError")          \* field not in data
    ELSE IF ~HasGet(d) THEN Raise("AttributeError")    \* data.get
    ELSE LET sample_size == Get(d, "sample_size")
             effect == Get(d, "effect_size")
             sofar == RequiredFieldErrors(d) \o SampleSizeErrors(sample_size)
         IN  IF ~IsInstanceDict(effect)
             THEN Return(sofar \o ShapeErrors(effect))
             ELSE NestedChecks(sofar, effect)

\* ---------------------------------------------- the inputs of the model
Ints == (-1) .. MaxNum

\* title, study_design, population, outcome: the code reads only presence.
TextChoices == {Absent, StrV(0)}

SampleSizeChoices ==
    {Absent, Null, BoolV(TRUE), BoolV(FALSE), FloatHalves(3), StrV(0)}
    \cup {IntV(k) : k \in Ints}

SubFieldChoices ==
    {Absent, Null, BoolV(TRUE), FloatHalves(3), StrV(0), DictV(EmptyDict)}
    \cup {IntV(k) : k \in 0 .. MaxNum}

EffectDicts ==
    {MkDict([type |-> ty, value |-> v, lower_ci |-> lo, upper_ci |-> up]) :
        ty \in TextChoices, v \in SubFieldChoices,
        lo \in SubFieldChoices, up \in SubFieldChoices}

EffectChoices == {Absent, Null, StrV(0), IntV(1), ListV(0)} \cup EffectDicts

\* Every mapping json.loads can return, within the value sets above.
Mappings ==
    {MkDict([title |-> ti, study_design |-> sd, population |-> po,
             sample_size |-> ss, outcome |-> ou, effect_size |-> ef]) :
        ti \in TextChoices, sd \in TextChoices, po \in TextChoices,
        ss \in SampleSizeChoices, ou \in TextChoices, ef \in EffectChoices}

\* The other JSON values json.loads can return.
NonMappings ==
    {Null, BoolV(TRUE), IntV(1), FloatHalves(3), StrV(0), ListV(0)}

\* ------------------------------------------ the call of validate_extraction
MainIdle ==
    /\ api_key = TRUE /\ pdfs = << >> /\ idx = 0 /\ mpc = "idle"
    /\ result = Null /\ error_check = << >> /\ results = << >>
    /\ exc = "none" /\ files = {} /\ console = << >>
    /\ extracted = << >> /\ writes = << >>

Init ==
    /\ data = Null /\ ret = Return(<< >>) /\ vpc = "idle"
    /\ MainIdle

Call(d) ==
    /\ data' = d
    /\ ret' = validate_extraction(d)
    /\ vpc' = IF ret'.exc = "none" THEN "returned" ELSE "raised"
    /\ UNCHANGED mvars

ValidateMapping == vpc = "idle" /\ \E d \in Mappings : Call(d)

ValidateNonMapping == vpc = "idle" /\ \E d \in NonMappings : Call(d)

Next == ValidateMapping \/ ValidateNonMapping

Spec == Init /\ [][Next]_vars

\* ------------------------------------------------------ main: the paths
\* A path is the sequence of its characters.
PdfPaths ==
    {<<"a", ".", "p">>, <<"d", "/", "a", ".", "p">>, <<".", "b">>}

\* The last position of character c in s, 0 when it has none.
LastIndex(s, c) ==
    LET at == {i \in 1 .. Len(s) : s[i] = c}
    IN  IF at = {} THEN 0 ELSE CHOOSE i \in at : \A j \in at : j <= i

\* os.path.basename: what follows the last "/".
basename(path) == SubSeq(path, LastIndex(path, "/") + 1, Len(path))

\* os.path.splitext(name)[0]: the name up to its last ".", unless only dots
\* precede that "." (a leading dot starts no extension).
splitext_root(name) ==
    LET k == LastIndex(name, ".")
    IN  IF k > 0 /\ \E j \in 1 .. (k - 1) : name[j] # "."
        THEN SubSeq(name, 1, k - 1) ELSE name

\* base_name + ".json"
JsonName(pdf) == splitext_root(basename(pdf)) \o <<".json">>

\* open(path, "w") + json.dump: the file at dir/name now holds `content`.
WriteFile(fs, dir, name, content) ==
    {f \in fs : ~(f.dir = dir /\ f.name = name)}
    \cup {[dir |-> dir, name |-> name, content |-> content]}

\* --------------------------------------------- main: what process_pdf does
ValidRecord ==
    MkDict([title |-> StrV(0), study_design |-> StrV(0),
            population |-> StrV(0), sample_size |-> IntV(1),
            outcome |-> StrV(0),
            effect_size |-> MkDict([type |-> StrV(0), value |-> IntV(1),
                                    lower_ci |-> IntV(0),
                                    upper_ci |-> IntV(2)])])

\* ValidRecord with a field replaced.
With(field, v) == DictV([ValidRecord.d EXCEPT ![field] = v])

\* What json.loads(output_text) returns in the model of main: a valid record,
\* records with violations, a record on which validate_extraction raises, and
\* a JSON value that is no mapping.
ParsedOutputs ==
    {ValidRecord,
     With("sample_size", IntV(-1)),
     With("effect_size", StrV(0)),
     With("effect_size",
          MkDict([type |-> StrV(0), value |-> Null, lower_ci |-> StrV(0),
                  upper_ci |-> IntV(1)])),
     ListV(0)}

\* The ways process_pdf raises: open / files.create, responses.create,
\* extract_output_text, json.loads.
ProcessPdfFailures ==
    {"OSError", "APIError", "RuntimeError", "JSONDecodeError"}

\* ----------------------------------------------------------- main: steps
ValidateIdle == data = Null /\ ret = Return(<< >>) /\ vpc = "idle"

Docs == UNION {[1 .. n -> PdfPaths] : n \in 1 .. MaxDocs}

MainInit ==
    /\ ValidateIdle
    /\ api_key \in BOOLEAN
    /\ pdfs \in Docs            \* nargs="+": at least one
    /\ idx = 0 /\ mpc = "start"
    /\ result = Null /\ error_check = << >> /\ results = << >>
    /\ exc = "none" /\ files = {} /\ console = << >>
    /\ extracted = << >> /\ writes = << >>

Report(tag) == console' = Append(console, [tag |-> tag, doc |-> idx])

\* if not api_key: print(...); sys.exit(1)
ExitNoKey ==
    /\ mpc = "start" /\ ~api_key
    /\ console' = Append(console, [tag |-> "ERROR", doc |-> 0])
    /\ mpc' = "exit1"
    /\ UNCHANGED <<vvars, api_key, pdfs, idx, result, error_check, results,
                   exc, files, extracted, writes>>

\* makedirs, client, results = [], and the for loop takes its first document
Setup ==
    /\ mpc = "start" /\ api_key
    /\ results' = << >>
    /\ idx' = 1
    /\ mpc' = "loop"
    /\ UNCHANGED <<vvars, api_key, pdfs, result, error_check, exc, files,
                   console, extracted, writes>>

\* for pdf in args.pdfs: print("[INFO] Processing ...")
StartDoc ==
    /\ mpc = "loop" /\ idx <= Len(pdfs)
    /\ Report("INFO")
    /\ mpc' = "try"
    /\ UNCHANGED <<vvars, api_key, pdfs, idx, result, error_check, results,
                   exc, files, extracted, writes>>

\* result = process_pdf(client, pdf) returns the parsed JSON value
ProcessPdfReturns ==
    /\ mpc = "try"
    /\ \E parsed \in ParsedOutputs :
          /\ result' = parsed
          /\ extracted' = Append(extracted, [ok |-> TRUE, parsed |-> parsed])
    /\ mpc' = "validate"
    /\ UNCHANGED <<vvars, api_key, pdfs, idx, error_check, results, exc,
                   files, console, writes>>

\* process_pdf raises
ProcessPdfRaises ==
    /\ mpc = "try"
    /\ \E e \in ProcessPdfFailures : exc' = e
    /\ extracted' = Append(extracted, [ok |-> FALSE, parsed |-> Null])
    /\ mpc' = "except"
    /\ UNCHANGED <<vvars, api_key, pdfs, idx, result, error_check, results,
                   files, console, writes>>

\* error_check = validate_extraction(result)
Validate ==
    /\ mpc = "validate"
    /\ LET r == validate_extraction(result)
       IN  IF r.exc = "none"
           THEN /\ error_check' = r.errors
                /\ mpc' = "save"
                /\ exc' = exc
           ELSE /\ exc' = r.exc
                /\ mpc' = "except"
                /\ error_check' = error_check
    /\ UNCHANGED <<vvars, api_key, pdfs, idx, result, results, files,
                   console, extracted, writes>>

\* results.append(result), then the file of the branch `dir` and its line
Save(dir, tag) ==
    /\ results' = Append(results, result)
    /\ files' = WriteFile(files, dir, JsonName(pdfs[idx]), result)
    /\ writes' = Append(writes, [doc |-> idx, dir |-> dir,
                                 name |-> JsonName(pdfs[idx])])
    /\ Report(tag)
    /\ idx' = idx + 1
    /\ mpc' = "loop"
    /\ UNCHANGED <<vvars, api_key, pdfs, result, error_check, exc, extracted>>

\* if len(error_check) == 0
SaveValid == mpc = "save" /\ Len(error_check) = 0 /\ Save("output", "OK")

\* else
SaveInvalid ==
    mpc = "save" /\ Len(error_check) # 0 /\ Save("invalid_output", "Invalid")

\* A faulty handler: it reports the failure and lets it end the batch.
HandleExceptionMutAbort ==
    /\ mpc = "except"
    /\ Report("ERROR")
    /\ mpc' = "aborted"
    /\ UNCHANGED <<vvars, api_key, pdfs, idx, result, error_check, results,
                   exc, files, extracted, writes>>

\* except Exception as e: print("[ERROR] Failed on ..."), and the loop goes on
HandleException ==
    /\ mpc = "except"
    /\ Report("ERROR")
    /\ exc' = "none"
    /\ idx' = idx + 1
    /\ mpc' = "loop"
    /\ UNCHANGED <<vvars, api_key, pdfs, result, error_check, results, files,
                   extracted, writes>>

\* the loop is exhausted: return results
ReturnResults ==
    /\ mpc = "loop" /\ idx > Len(pdfs)
    /\ mpc' = "returned"
    /\ UNCHANGED <<vvars, api_key, pdfs, idx, result, error_check, results,
                   exc, files, console, extracted, writes>>

MainNext ==
    \/ ExitNoKey \/ Setup \/ StartDoc \/ ProcessPdfReturns \/ ProcessPdfRaises
    \/ Validate \/ SaveValid \/ SaveInvalid \/ HandleException
    \/ ReturnResults

MainSpec == MainInit /\ [][MainNext]_vars

\* main is one sequential thread: while a step is possible it takes one.
\* (That process_pdf comes back at all is assumed: the code sets no timeout.)
LiveMainSpec == MainSpec /\ WF_vars(MainNext)

\* =========================================================== the claims
\* The call of validate_extraction has ended by returning a list.
Returned == vpc = "returned"

\* The returned list holds message m.
Emits(m) == Returned /\ \E i \in 1 .. Len(ret.errors) : ret.errors[i] = m

\* How often the returned list holds message m.
Count(m) ==
    IF Returned THEN Cardinality({i \in 1 .. Len(ret.errors) : ret.errors[i] = m})
    ELSE 0

HasKey(v, k) == k \in DOMAIN v.d

\* The call was made on a mapping.
CalledOnMapping == vpc # "idle" /\ data.t = "dict"

\* The call was made on a mapping whose effect_size is a mapping.
CalledOnEffectDict ==
    CalledOnMapping /\ HasKey(data, "effect_size")
                    /\ data.d["effect_size"].t = "dict"

Effect == data.d["effect_size"]

\* Key k of effect_size is present and not null.
NonNull(k) == HasKey(Effect, k) /\ Effect.d[k].t # "null"

IsNumber(v) == v.t \in {"int", "float", "bool"}

ShapeMsg == "effect_size must be an object"
OrderMsg == "lower_ci cannot be greater than upper_ci"
RangeMsg == "effect_size.value must be between lower_ci and upper_ci"
SizeTypeMsg == "sample_size must be an integer or null"
SizeRangeMsg == "sample_size must be > 0"

NestedMsgs ==
    {"Missing effect_size field: type", "Missing effect_size field: value",
     "Missing effect_size field: lower_ci",
     "Missing effect_size field: upper_ci",
     "effect_size.value must be numeric or null",
     "effect_size.lower_ci must be numeric or null",
     "effect_size.upper_ci must be numeric or null", OrderMsg, RangeMsg}

\* title, study_design, population and outcome are present, and sample_size
\* is present and null or a positive integer.
FiveOthersValid ==
    /\ \A k \in {"title", "study_design", "population", "sample_size",
                 "outcome"} : HasKey(data, k)
    /\ \/ data.d["sample_size"].t = "null"
       \/ data.d["sample_size"].t = "int" /\ data.d["sample_size"].n > 0

\* C1: validate_extraction never raises: whatever JSON value it is called on,
\* the call ends by returning a list.
C1NeverRaises == vpc # "raised"

\* ---- C5
\* The violations of each of the seven checks, each stated on its own.
C5Check1 ==
    Messages("Missing field: ",
             SelectSeq(REQUIRED_FIELDS, LAMBDA f : ~HasKey(data, f)))

C5Check2 ==
    IF ~HasKey(data, "sample_size") \/ data.d["sample_size"].t = "null"
    THEN << >>
    ELSE IF data.d["sample_size"].t \notin {"int", "bool"}
         THEN <<SizeTypeMsg>>
    ELSE IF data.d["sample_size"].n <= 0 THEN <<SizeRangeMsg>> ELSE << >>

C5IsRecord == HasKey(data, "effect_size") /\ Effect.t = "dict"

C5Check3 == IF C5IsRecord THEN << >> ELSE <<ShapeMsg>>

C5Check4 ==
    IF ~C5IsRecord THEN << >>
    ELSE Messages("Missing effect_size field: ",
                  SelectSeq(EFFECT_KEYS, LAMBDA k : ~HasKey(Effect, k)))

C5Check5 ==
    IF ~C5IsRecord THEN << >>
    ELSE LET bad == SelectSeq(<<"value", "lower_ci", "upper_ci">>,
                       LAMBDA k : NonNull(k) /\ ~IsNumber(Effect.d[k]))
         IN  [i \in 1 .. Len(bad) |->
                 "effect_size." \o bad[i] \o " must be numeric or null"]

C5Check6 ==
    IF C5IsRecord /\ NonNull("lower_ci") /\ NonNull("upper_ci")
       /\ Effect.d["lower_ci"].n > Effect.d["upper_ci"].n
    THEN <<OrderMsg>> ELSE << >>

C5Check7 ==
    IF C5IsRecord /\ NonNull("value") /\ NonNull("lower_ci")
       /\ NonNull("upper_ci")
       /\ ~(Effect.d["lower_ci"].n <= Effect.d["value"].n
            /\ Effect.d["value"].n <= Effect.d["upper_ci"].n)
    THEN <<RangeMsg>> ELSE << >>

\* C5: on every mapping the call returns a list, and the list is the
\* violations of the seven checks concatenated in the fixed order.
C5InOrderConcatenation ==
    CalledOnMapping =>
        /\ Returned
        /\ ret.errors = C5Check1 \o C5Check2 \o C5Check3 \o C5Check4
                        \o C5Check5 \o C5Check6 \o C5Check7

\* ---- C6
\* effect_size is absent, or is text or a number.
C6AbsentOrScalar ==
    CalledOnMapping
    /\ (HasKey(data, "effect_size")
        => data.d["effect_size"].t \in {"str", "int", "float"})

\* C6: with effect_size absent or a scalar the shape violation is emitted
\* exactly once and no nested-check violation is; with effect_size absent the
\* list holds "Missing field: effect_size" too, and with the five other fields
\* valid it is exactly those two.
C6ShapeViolationSkipsNested ==
    C6AbsentOrScalar =>
        /\ Returned
        /\ Count(ShapeMsg) = 1
        /\ \A m \in NestedMsgs : ~Emits(m)
        /\ ~HasKey(data, "effect_size") =>
              /\ Emits("Missing field: effect_size")
              /\ FiveOthersValid =>
                    ret.errors = <<"Missing field: effect_size", ShapeMsg>>

C6Witness ==
    C6AbsentOrScalar /\ ~HasKey(data, "effect_size") /\ FiveOthersValid
    /\ Returned

\* ---- C7
\* lower_ci and upper_ci are non-null and can be compared.
C7CIsComparable ==
    /\ CalledOnEffectDict /\ NonNull("lower_ci") /\ NonNull("upper_ci")
    /\ \/ IsNumber(Effect.d["lower_ci"]) /\ IsNumber(Effect.d["upper_ci"])
       \/ Effect.d["lower_ci"].t = "str" /\ Effect.d["upper_ci"].t = "str"

\* C7: with non-null lower_ci greater than non-null upper_ci the call returns
\* a list holding the CI-ordering violation, whatever value is.
C7OrderViolationAnyValue ==
    (C7CIsComparable /\ Effect.d["lower_ci"].n > Effect.d["upper_ci"].n)
        => Emits(OrderMsg)

\* ---- C8
\* All six keys are present, sample_size is null or a positive integer, and
\* effect_size is null.
C8NullEffect ==
    /\ CalledOnMapping /\ FiveOthersValid /\ HasKey(data, "effect_size")
    /\ data.d["effect_size"].t = "null"

\* C8 as stated: such a record passes, the call returns the empty list.
C8NullEffectPasses == C8NullEffect => (Returned /\ ret.errors = << >>)

\* C8 as amended: such a record yields exactly the shape violation, and on a
\* mapping the shape violation is emitted exactly when effect_size is absent,
\* null or any other value that is not a record.
C8NullEffectIsShapeViolation ==
    /\ C8NullEffect => (Returned /\ ret.errors = <<ShapeMsg>>)
    /\ (CalledOnMapping /\ Returned) => (Emits(ShapeMsg) <=> ~C5IsRecord)
    /\ (CalledOnMapping /\ ~C5IsRecord) => Returned

C8Witness == C8NullEffect /\ Returned

\* ---- C9
SampleSize == data.d["sample_size"]

\* C9, for the calls that return: sample_size absent or null, neither
\* sample-size violation; present, non-null and not an integer (text, a
\* fraction, a boolean), the type violation alone; an integer <= 0, the range
\* violation alone; an integer > 0, neither; never both.
C9SampleSizeCheck ==
    (CalledOnMapping /\ Returned) =>
        /\ ~(Emits(SizeTypeMsg) /\ Emits(SizeRangeMsg))
        /\ (~HasKey(data, "sample_size") \/ SampleSize.t = "null")
              => (~Emits(SizeTypeMsg) /\ ~Emits(SizeRangeMsg))
        /\ (HasKey(data, "sample_size")
            /\ SampleSize.t \in {"str", "float", "bool"})
              => (Count(SizeTypeMsg) = 1 /\ ~Emits(SizeRangeMsg))
        /\ (HasKey(data, "sample_size") /\ SampleSize.t = "int"
            /\ SampleSize.n <= 0)
              => (Count(SizeRangeMsg) = 1 /\ ~Emits(SizeTypeMsg))
        /\ (HasKey(data, "sample_size") /\ SampleSize.t = "int"
            /\ SampleSize.n > 0)
              => (~Emits(SizeTypeMsg) /\ ~Emits(SizeRangeMsg))

\* ---- C10
\* value, lower_ci and upper_ci are all present, non-null and numbers.
C10AllNumeric ==
    /\ CalledOnEffectDict
    /\ \A k \in {"value", "lower_ci", "upper_ci"} :
          NonNull(k) /\ IsNumber(Effect.d[k])

\* C10: with the three numeric the call returns and the value-in-range
\* violation is emitted iff not (lower_ci <= value <= upper_ci), bounds
\* included; so with lower_ci > upper_ci it is emitted along with the
\* CI-ordering violation; with any of the three null or absent it is not
\* emitted.
C10ValueInRange ==
    /\ C10AllNumeric =>
          /\ Returned
          /\ Emits(RangeMsg) <=>
                ~(Effect.d["lower_ci"].n <= Effect.d["value"].n
                  /\ Effect.d["value"].n <= Effect.d["upper_ci"].n)
          /\ Effect.d["lower_ci"].n > Effect.d["upper_ci"].n
                => (Emits(RangeMsg) /\ Emits(OrderMsg))
    /\ (CalledOnEffectDict
        /\ \E k \in {"value", "lower_ci", "upper_ci"} : ~NonNull(k))
          => ~Emits(RangeMsg)

\* value sits on a bound of a proper interval and no violation is emitted.
C10Witness ==
    /\ C10AllNumeric /\ Returned
    /\ Effect.d["value"].n = Effect.d["upper_ci"].n
    /\ Effect.d["lower_ci"].n < Effect.d["upper_ci"].n
    /\ ~Emits(RangeMsg)

\* ---- C2
\* The writes main made for document i.
WritesOf(i) == {j \in 1 .. Len(writes) : writes[j].doc = i}

\* validate_extraction returns the empty list on v.
ZeroViolations(v) == validate_extraction(v) = Return(<< >>)

\* C2: at the end of the batch every document whose extraction succeeded has
\* exactly one file <base_name>.json written, in output/ iff there were zero
\* violations and else in invalid_output/, and every document whose
\* extraction failed has none.
C2OneFilePerExtractedDoc ==
    mpc = "returned" =>
        \A i \in 1 .. Len(pdfs) :
            IF extracted[i].ok
            THEN \E j \in 1 .. Len(writes) :
                    /\ WritesOf(i) = {j}
                    /\ writes[j].name = JsonName(pdfs[i])
                    /\ writes[j].dir = IF ZeroViolations(extracted[i].parsed)
                                       THEN "output" ELSE "invalid_output"
            ELSE WritesOf(i) = {}

\* ---- C3
Outcomes == {"OK", "Invalid", "ERROR"}

\* The batch has ended normally and the console shows every document of the
\* input processed once, in input order, one at a time: document i's start
\* line directly followed by its one outcome line.
BatchDone ==
    /\ mpc = "returned"
    /\ Len(console) = 2 * Len(pdfs)
    /\ \A i \in 1 .. Len(pdfs) :
          /\ console[2 * i - 1] = [tag |-> "INFO", doc |-> i]
          /\ console[2 * i].doc = i
          /\ console[2 * i].tag \in Outcomes
          /\ console[2 * i].tag = "ERROR" <=> WritesOf(i) = {}

\* C3: with the credential present the batch always reaches BatchDone,
\* whatever fails on the way.
C3BatchCompletes == (mpc = "start" /\ api_key) ~> BatchDone

\* A batch that ended after a failed document was followed by a saved one.
C3Witness ==
    /\ BatchDone
    /\ \E i, j \in 1 .. Len(pdfs) :
          i < j /\ console[2 * i].tag = "ERROR" /\ console[2 * j].tag = "OK"

\* ---- C4
\* The records of the documents whose extraction succeeded, in input order.
ExtractedRecords ==
    LET ok == SelectSeq(extracted, LAMBDA x : x.ok)
    IN  [i \in 1 .. Len(ok) |-> ok[i].parsed]

\* C4: the list main returns is exactly the records of the documents whose
\* extraction succeeded, in input order.
C4ResultsAreExtractedRecords == mpc = "returned" => results = ExtractedRecords

====
